---- MODULE Spec2Model ----
(***************************************************************************)
(* A model of src/main.py: the plugin updater.  One process run is         *)
(* main(): the VersionFileHandler is constructed (the ledger file          *)
(* plugin_versions.json is read, or created), PluginUpdater.run() walks    *)
(* PLUGINS, each entry is resolved by its handler and the resulting job is *)
(* downloaded, and at teardown VersionFileHandler.__del__ writes the       *)
(* ledger back.  Several runs follow each other over the same ledger file  *)
(* and plugins directory.                                                  *)
(*                                                                         *)
(* Python values are modelled as follows.  A dict is a sequence of         *)
(* <<key, value>> pairs in insertion order with distinct keys.  A str that *)
(* the code takes apart (the host of a URL) is a sequence of one-character *)
(* strings; a str that is only compared or copied is a TLA+ string.  None  *)
(* is the record field none = TRUE of a job.                               *)
(***************************************************************************)
EXTENDS Integers, Sequences, FiniteSets, TLC

\* ------------------------------------------------------------------ bounds

\* Remote version ids (resource version, build number, release id) are 1..MaxVersion.
MaxVersion == 2

\* Number of consecutive process runs over the same files.
MaxRuns == 2
MaxRecords == 2

Versions == 1..MaxVersion

\* ------------------------------------------------------- str and dict helpers

\* str.lower() on the characters the hosts of the catalogs use.
LowerChar(c) ==
    CASE c = "C" -> "c"
      [] c = "I" -> "i"
      [] c = "G" -> "g"
      [] OTHER -> c

Lower(s) == [i \in DOMAIN s |-> LowerChar(s[i])]

\* The Python test `t in s` on two strs.
Contains(s, t) ==
    \E i \in 0..(Len(s) - Len(t)) :
        \A j \in 1..Len(t) : s[i + j] = t[j]

\* `key in d` for a dict.
HasKey(d, key) == \E i \in DOMAIN d : d[i][1] = key

\* d[key] for a key of the dict.
Lookup(d, key) == d[CHOOSE i \in DOMAIN d : d[i][1] = key][2]

\* d[key] = value: a present key keeps its position, a new key goes last.
DictSet(d, key, value) ==
    IF HasKey(d, key)
    THEN [i \in DOMAIN d |-> IF d[i][1] = key THEN <<key, value>> ELSE d[i]]
    ELSE Append(d, <<key, value>>)

\* Python's == on two dicts: the same keys with the same values, in any order.
DictEq(d, e) ==
    /\ \A i \in DOMAIN d : HasKey(e, d[i][1]) /\ Lookup(e, d[i][1]) = d[i][2]
    /\ \A i \in DOMAIN e : HasKey(d, e[i][1])

Keys(d) == {d[i][1] : i \in DOMAIN d}

\* ------------------------------------------------------------ the ledger file

\* The absent value of VersionFileHandler.get (None): no version id is 0.
NoVersion == 0

\* A dump that writes only the last digit of an int.
LastDigit(n) == <<n % 10>>

\* json.dump writes an int as its decimal digits.
RECURSIVE IntToDigits(_)
IntToDigits(n) ==
    IF n < 10 THEN <<n>> ELSE Append(IntToDigits(n \div 10), n % 10)

\* json.load reads the digits back.
RECURSIVE DigitsToInt(_)
DigitsToInt(ds) ==
    IF Len(ds) = 0 THEN 0
    ELSE 10 * DigitsToInt(SubSeq(ds, 1, Len(ds) - 1)) + ds[Len(ds)]

\* json.dump(self._data, outfile): the members "key": digits, in dict order.
JsonDump(d) == [i \in DOMAIN d |-> <<d[i][1], IntToDigits(d[i][2])>>]

\* json.load(infile): the dict of the members, a repeated key keeping its last value.
RECURSIVE JsonLoad(_)
JsonLoad(text) ==
    IF Len(text) = 0 THEN <<>>
    ELSE DictSet(JsonLoad(SubSeq(text, 1, Len(text) - 1)),
                 text[Len(text)][1], DigitsToInt(text[Len(text)][2]))

\* The states of the file VERSION_FILE: absent, not valid JSON, or JSON text.
AbsentFile == [exists |-> FALSE, valid |-> FALSE, text |-> <<>>]
CorruptFile == [exists |-> TRUE, valid |-> FALSE, text |-> <<>>]
JsonFile(text) == [exists |-> TRUE, valid |-> TRUE, text |-> text]

\* VersionFileHandler.get
Get(d, key) == IF HasKey(d, key) THEN Lookup(d, key) ELSE NoVersion

\* VersionFileHandler.set
Set(d, key, value) == DictSet(d, key, value)

\* The file names and version ids of the ledgers that are written and read
\* back: ids of one digit, of several digits, with zeros inside and at the end.
LedgerFiles == {"A", "B", "C"}
LedgerIds == {7, 10, 664, 1050273}

\* ------------------------------------------------------------------ catalogs

SpigotHost == <<"w", ".", "s", "p", "i", "g", "o", "t", "m", "c", ".", "o", "r", "g">>
JenkinsHost == <<"c", "i", ".", "e", ".", "z">>
GithubHost == <<"g", "i", "t", "h", "u", "b", ".", "c", "o", "m">>
BukkitHost == <<"d", "e", "v", ".", "b", ".", "o", "r", "g">>
LuciHost == <<"l", "u", "c", "i", ".", "x">>
UpperJenkinsHost == <<"C", "I", ".", "e", ".", "z">>

SpigotToken == <<"s", "p", "i", "g", "o", "t", "m", "c", ".", "o", "r", "g">>
JenkinsToken == <<"c", "i", ".">>
GithubToken == <<"g", "i", "t", "h", "u", "b", ".", "c", "o", "m">>

\* A URL str: its host and the rest (the path, whose text after the last '.'
\* is the Spigot resource id).  type is the Python type of the catalog key.
Url(host, path) == [type |-> "str", host |-> host, path |-> path]
NotAUrl == [type |-> "int", host |-> <<>>, path |-> ""]

\* The catalog value: a file name (str), a dict index -> file name, or
\* something else.
OneFile(name) == [type |-> "str", name |-> name, items |-> <<>>]
FileMap(items) == [type |-> "dict", name |-> "", items |-> items]
NotFiles == [type |-> "list", name |-> "", items |-> <<>>]

Entry(url, files) == [url |-> url, files |-> files]

SpigotA == Entry(Url(SpigotHost, "luckperms.28140"), OneFile("A"))
JenkinsBC == Entry(Url(JenkinsHost, "job/EssentialsX"),
                   FileMap(<< <<0, "B">>, <<1, "C">> >>))
GithubCB == Entry(Url(GithubHost, "NEZNAMY/TAB"),
                  FileMap(<< <<1, "C">>, <<0, "B">> >>))
GithubB == Entry(Url(GithubHost, "NEZNAMY/TAB"), FileMap(<< <<0, "B">> >>))
DirectD == Entry(Url(BukkitHost, "worldguard/files/latest"), OneFile("D"))
BadFiles == Entry(Url(SpigotHost, "vault.34315"), NotFiles)
BadUrl == Entry(NotAUrl, OneFile("C"))
LuciD == Entry(Url(LuciHost, "files/latest"), OneFile("D"))
UpperJenkinsB == Entry(Url(UpperJenkinsHost, "job/ProtocolLib"),
                       FileMap(<< <<0, "B">> >>))

\* The values of PLUGINS the model runs: the empty catalog, catalogs of
\* well-formed entries, catalogs with a malformed entry in the middle, and a
\* catalog of a direct link whose host holds "ci." and a Jenkins URL typed
\* in capitals.
Catalogs ==
    { <<>>,
      <<SpigotA, JenkinsBC, DirectD>>,
      <<GithubCB, SpigotA>>,
      <<SpigotA, BadFiles, GithubB>>,
      <<DirectD, BadUrl, SpigotA>>,
      <<LuciD, UpperJenkinsB>> }

\* The ledger files a first run may find.
InitialFiles ==
    { AbsentFile, CorruptFile, JsonFile(<<>>),
      JsonFile(<< <<"A", <<1>> >>, <<"B", <<1>> >> >>),
      JsonFile(<< <<"C", <<2>> >>, <<"D", <<1>> >> >>) }

\* ----------------------------------------------------------- remote endpoints

\* What a metadata GET returns: a non-success status ("fail"), a success
\* whose body response.json() or the field lookups cannot read ("bad"), or a
\* success carrying a version id and the artifact/asset list ("ok").
\* "none" marks an entry that has not been asked in this run, "direct" one
\* that has no metadata query.
Response(status, ver, arts) == [status |-> status, ver |-> ver, arts |-> arts]
NotAsked == Response("none", 0, <<>>)
NoQuery == Response("direct", 0, <<>>)

\* The status and version id of a response, without its artifact list.
VersionOf(resp) == Response(resp.status, resp.ver, <<>>)

\* data["artifacts"] / data["assets"]: relative paths, or download URLs.
ArtifactLists == { <<"p0", "p1">>, <<"p0">>, <<"p0", "p0">> }

SpigotResponses ==
    {Response("fail", 0, <<>>), Response("bad", 0, <<>>)}
        \cup {Response("ok", v, <<>>) : v \in Versions}

BuildResponses ==
    {Response("fail", 0, <<>>), Response("bad", 0, <<>>)}
        \cup {Response("ok", v, a) : v \in Versions, a \in ArtifactLists}

\* ------------------------------------------------------------------ the jobs

\* A download job: None, or a dict direct URL -> file name.
NoneJob == [none |-> TRUE, pairs |-> <<>>]
Job(pairs) == [none |-> FALSE, pairs |-> pairs]

\* A direct URL: the text the f-string builds from its parts.
DirectUrl(kind, base, ver, path) ==
    [kind |-> kind, base |-> base, ver |-> ver, path |-> path]

\* Log records of the logging handlers.
Log(level, msg, arg) == [level |-> level, msg |-> msg, arg |-> arg]

\* What a handler returns and changes: the job, the ledger map, the updated
\* counter, the records logged, and whether an exception left the handler.
Outcome(j, d, u, logs, raised) ==
    [job |-> j, data |-> d, updated |-> u, logs |-> logs, raised |-> raised]

\* A resolver that takes every answer for a new version.
ChangedAlways(d, file, version) == TRUE

\* The comparison `self._version_file_handler.get(file) != version`.
Changed(d, file, version) == Get(d, file) /= version

\* url.split('.')[-1]: the resource id at the end of the URL.
Resource(url) == url.path

\* PluginUpdater._handle_spigot
HandleSpigot(url, files, resp, d, u) ==
    IF resp.status /= "fail"
    THEN IF resp.status = "bad"
         THEN Outcome(NoneJob, d, u, {}, TRUE)
         ELSE IF Changed(d, files.name, resp.ver)
              THEN Outcome(
                       Job(<< <<DirectUrl("spiget", Resource(url), resp.ver, ""),
                                files.name>> >>),
                       Set(d, files.name, resp.ver), u + 1, {}, FALSE)
              ELSE Outcome(NoneJob, d, u, {}, FALSE)
    ELSE Outcome(NoneJob, d, u, {Log("ERROR", "get data", url.path)}, FALSE)

\* The direct URL of artifact `art` of a build or release.
ArtifactUrl(kind, url, art) ==
    IF kind = "jenkins"
    THEN DirectUrl("artifact", url.path, 0, art)
    ELSE DirectUrl("asset", "", 0, art)

\* The loop `for i, file in files.items()` of a handler: st holds result,
\* the ledger map, the updated counter and whether data[...][i] raised.
RECURSIVE FilesLoop(_, _, _, _, _)
FilesLoop(kind, url, resp, items, st) ==
    IF Len(items) = 0 \/ st.raised
    THEN st
    ELSE LET i == items[1][1]
             file == items[1][2]
         IN  IF i >= Len(resp.arts)
             THEN [st EXCEPT !.raised = TRUE]
             ELSE FilesLoop(kind, url, resp, Tail(items),
                      [result |-> DictSet(st.result,
                                          ArtifactUrl(kind, url, resp.arts[i + 1]),
                                          file),
                       data |-> Set(st.data, file, resp.ver),
                       updated |-> st.updated + 1,
                       raised |-> FALSE])

\* files[next(iter(files))]: the file of the first item of the dict.
FirstFile(files) == files.items[1][2]

\* The shared body of _handle_jenkins and _handle_github.
HandleBuild(kind, url, files, resp, d, u) ==
    IF resp.status /= "fail"
    THEN IF resp.status = "bad" \/ Len(files.items) = 0
         THEN Outcome(NoneJob, d, u, {}, TRUE)
         ELSE IF Changed(d, FirstFile(files), resp.ver)
              THEN LET st == FilesLoop(kind, url, resp, files.items,
                                 [result |-> <<>>, data |-> d,
                                  updated |-> u, raised |-> FALSE])
                   IN  IF st.raised
                       THEN Outcome(NoneJob, st.data, st.updated, {}, TRUE)
                       ELSE Outcome(Job(st.result), st.data, st.updated, {}, FALSE)
              ELSE Outcome(NoneJob, d, u, {}, FALSE)
    ELSE Outcome(NoneJob, d, u, {Log("ERROR", "get data", url.path)}, FALSE)

\* PluginUpdater._handle_jenkins
HandleJenkins(url, files, resp, d, u) == HandleBuild("jenkins", url, files, resp, d, u)

\* PluginUpdater._handle_github
HandleGithub(url, files, resp, d, u) == HandleBuild("github", url, files, resp, d, u)

\* A direct link that is recorded in the ledger like a resolved entry.
HandleDirectRecorded(url, files, d, u) ==
    Outcome(Job(<< <<DirectUrl("direct", url.path, 0, ""), files.name>> >>),
            Set(d, files.name, 1), u + 1, {}, FALSE)

\* The job of an entry that is downloaded from its own URL.
HandleDirect(url, files, d, u) ==
    Outcome(Job(<< <<DirectUrl("direct", url.path, 0, ""), files.name>> >>),
            d, u, {}, FALSE)

\* The branch of run() an entry takes, from domain = url.lower().split('/')[2].
Variant(url) ==
    LET domain == Lower(url.host)
    IN  IF Contains(domain, SpigotToken) THEN "spigot"
        ELSE IF Contains(domain, JenkinsToken) THEN "jenkins"
        ELSE IF Contains(domain, GithubToken) THEN "github"
        ELSE "direct"

\* The responses the metadata endpoint of an entry may give.
Responses(url) ==
    CASE Variant(url) = "spigot" -> SpigotResponses
      [] Variant(url) \in {"jenkins", "github"} -> BuildResponses
      [] OTHER -> {NoQuery}

\* The handler call of run() for one entry.
Handle(entry, resp, d, u) ==
    CASE Variant(entry.url) = "spigot" -> HandleSpigot(entry.url, entry.files, resp, d, u)
      [] Variant(entry.url) = "jenkins" -> HandleJenkins(entry.url, entry.files, resp, d, u)
      [] Variant(entry.url) = "github" -> HandleGithub(entry.url, entry.files, resp, d, u)
      [] OTHER -> HandleDirect(entry.url, entry.files, d, u)

\* A check of the URL alone.
MalformedUrlOnly(entry) == entry.url.type /= "str"

\* `type(url) != str or type(files) not in (str, dict)`
Malformed(entry) ==
    entry.url.type /= "str" \/ entry.files.type \notin {"str", "dict"}

\* A tally that counts every entry as one file.
FileCountOne(files) == 1

\* `len(files) if type(files) == dict else 1`
FileCount(files) == IF files.type = "dict" THEN Len(files.items) ELSE 1

\* ------------------------------------------------------------------ the state

VARIABLES
    PLUGINS,      \* the catalog, fixed for all runs
    versionFile,  \* the file VERSION_FILE on disk
    written,      \* the files of PLUGIN_DIR that this run wrote
    run,          \* the number of the current process run
    pc,           \* where the current run is
    data,         \* VersionFileHandler._data
    updated,      \* PluginUpdater._updated
    downloaded,   \* PluginUpdater._downloaded
    total,        \* PluginUpdater._total
    idx,          \* the position of the for loop of run() in PLUGINS
    job,          \* the argument of the current download() call
    jpos,         \* the position of the for loop of download() in the job
    console,      \* the records logged in this run
    outcome,      \* how main() ended: finished, halted, interrupted, exception
    exitStatus,   \* the exit status of the process, once pc = "exited"
    writes,       \* history: the writes of VERSION_FILE in this run
    reads,        \* history: the reads of VERSION_FILE in this run
    attempted,    \* history: the GETs download() issued for this entry, with their success
    seen,         \* history: the metadata response each entry got in this run
    prevSeen,     \* history: the status and version id each entry got in the run before
    prevOutcome,  \* history: outcome of the run before
    loaded        \* history: _data as load left it in this run

vars ==
    <<PLUGINS, versionFile, written, run, pc, data, updated, downloaded, total,
      idx, job, jpos, console, outcome, exitStatus, writes, reads, attempted,
      seen, prevSeen, prevOutcome, loaded>>

\* The variables of one process, as they are when the process starts.
ProcessStart ==
    /\ pc' = "start"
    /\ data' = <<>>
    /\ updated' = 0
    /\ downloaded' = 0
    /\ total' = 0
    /\ idx' = 0
    /\ job' = NoneJob
    /\ jpos' = 0
    /\ console' = {}
    /\ written' = {}
    /\ outcome' = "running"
    /\ exitStatus' = 0
    /\ writes' = 0
    /\ reads' = 0
    /\ attempted' = {}
    /\ seen' = [i \in DOMAIN PLUGINS |-> NotAsked]
    /\ loaded' = <<>>

Init ==
    /\ PLUGINS \in Catalogs
    /\ versionFile \in InitialFiles
    /\ written = {}
    /\ run = 1
    /\ pc = "start"
    /\ data = <<>>
    /\ updated = 0
    /\ downloaded = 0
    /\ total = 0
    /\ idx = 0
    /\ job = NoneJob
    /\ jpos = 0
    /\ console = {}
    /\ outcome = "running"
    /\ exitStatus = 0
    /\ writes = 0
    /\ reads = 0
    /\ attempted = {}
    /\ seen = [i \in DOMAIN PLUGINS |-> NotAsked]
    /\ prevSeen = [i \in DOMAIN PLUGINS |-> NotAsked]
    /\ prevOutcome = "none"
    /\ loaded = <<>>

\* VersionFileHandler.write: the file after json.dump of d.
Write(d) == JsonFile(JsonDump(d))

\* A reader that takes any file for JSON.
ParsesAnything(file) == TRUE

\* json.load(infile) returns for the file instead of raising.
Parses(file) == file.valid

\* PluginUpdater.__init__: VersionFileHandler.__init__ sets _data = {} and
\* _handle_file reads the file if it exists (json.load raises on a file that
\* is not JSON) and writes it otherwise.
Construct ==
    /\ pc = "start"
    /\ IF ~versionFile.exists
       THEN /\ versionFile' = Write(<<>>)
            /\ writes' = writes + 1
            /\ data' = <<>>
            /\ pc' = "run"
            /\ UNCHANGED <<outcome, reads>>
       ELSE IF Parses(versionFile)
       THEN /\ data' = JsonLoad(versionFile.text)
            /\ reads' = reads + 1
            /\ pc' = "run"
            /\ UNCHANGED <<versionFile, writes, outcome>>
       ELSE /\ data' = <<>>
            /\ reads' = reads + 1
            /\ pc' = "teardown"
            /\ outcome' = "exception"
            /\ UNCHANGED <<versionFile, writes>>
    /\ loaded' = data'
    /\ UNCHANGED <<PLUGINS, written, run, updated, downloaded, total, idx, job,
                   jpos, console, exitStatus, attempted, seen, prevSeen,
                   prevOutcome>>

\* A check that takes no catalog for empty.
NeverEmpty(cat) == FALSE

\* `not PLUGINS`
Empty(cat) == Len(cat) = 0

\* run(), up to the for loop: the empty catalog is logged and run() returns.
RunStart ==
    /\ pc = "run"
    /\ IF Empty(PLUGINS)
       THEN /\ console' = console \cup {Log("INFO", "running", ""),
                                        Log("CRITICAL", "not specified", "")}
            /\ pc' = "teardown"
            /\ outcome' = "halted"
            /\ idx' = idx
       ELSE /\ console' = console \cup {Log("INFO", "running", "")}
            /\ pc' = "loop"
            /\ idx' = 1
            /\ outcome' = outcome
    /\ UNCHANGED <<PLUGINS, versionFile, written, run, data, updated, downloaded,
                   total, job, jpos, exitStatus, writes, reads, attempted, seen,
                   prevSeen, prevOutcome, loaded>>

\* The head of the for loop of run(): past the last entry the loop ends; a
\* malformed entry makes run() return; otherwise _total counts the entry.
Iterate ==
    /\ pc = "loop"
    /\ IF idx > Len(PLUGINS)
       THEN /\ pc' = "summarize"
            /\ UNCHANGED <<total, outcome>>
       ELSE IF Malformed(PLUGINS[idx])
       THEN /\ pc' = "teardown"
            /\ outcome' = "halted"
            /\ total' = total
       ELSE /\ pc' = "resolve"
            /\ total' = total + FileCount(PLUGINS[idx].files)
            /\ outcome' = outcome
    /\ attempted' = {}
    /\ UNCHANGED <<PLUGINS, versionFile, written, run, data, updated, downloaded,
                   idx, job, jpos, console, exitStatus, writes, reads, seen, prevSeen,
                   prevOutcome, loaded>>

\* The handler call of the entry: the metadata GET returns resp, the handler
\* returns the job that download() is called with, or raises.
Dispatch ==
    /\ pc = "resolve"
    /\ \E resp \in Responses(PLUGINS[idx].url) :
        LET r == Handle(PLUGINS[idx], resp, data, updated)
        IN  /\ seen' = [seen EXCEPT ![idx] = resp]
            /\ data' = r.data
            /\ updated' = r.updated
            /\ console' = console \cup r.logs
            /\ job' = r.job
            /\ IF r.raised
               THEN /\ pc' = "teardown"
                    /\ outcome' = "exception"
                    /\ jpos' = jpos
               ELSE /\ pc' = "download"
                    /\ jpos' = 1
                    /\ outcome' = outcome
    /\ UNCHANGED <<PLUGINS, versionFile, written, run, downloaded, total, idx,
                   exitStatus, writes, reads, attempted, prevSeen, prevOutcome, loaded>>

\* A pass that counts a failed GET as a download.
FetchCountsFailure(ok, file, w, n, logs) ==
    IF ok
    THEN [written |-> w \cup {file}, downloaded |-> n + 1, console |-> logs]
    ELSE [written |-> w, downloaded |-> n + 1,
          console |-> logs \cup {Log("ERROR", "download", file)}]

\* One pass of the for loop of download(): the GET of `file` succeeded (ok)
\* or not; w, n and logs are the written files, _downloaded and the log.
Fetch(ok, file, w, n, logs) ==
    IF ok
    THEN [written |-> w \cup {file}, downloaded |-> n + 1, console |-> logs]
    ELSE [written |-> w, downloaded |-> n,
          console |-> logs \cup {Log("ERROR", "download", file)}]

\* download(): None returns at once; each pair is fetched in turn; after the
\* last pair the for loop of run() goes on with the next entry.
Download ==
    /\ pc = "download"
    /\ IF job.none \/ jpos > Len(job.pairs)
       THEN /\ pc' = "loop"
            /\ idx' = idx + 1
            /\ UNCHANGED <<written, downloaded, console, jpos, attempted>>
       ELSE /\ \E ok \in BOOLEAN :
                LET f == Fetch(ok, job.pairs[jpos][2], written, downloaded, console)
                IN  /\ written' = f.written
                    /\ downloaded' = f.downloaded
                    /\ console' = f.console
                    /\ attempted' = attempted
                            \cup {[file |-> job.pairs[jpos][2], ok |-> ok]}
            /\ jpos' = jpos + 1
            /\ UNCHANGED <<pc, idx>>
    /\ UNCHANGED <<PLUGINS, versionFile, run, data, updated, total, job, outcome,
                   exitStatus, writes, reads, seen, prevSeen, prevOutcome, loaded>>

\* The logging.info call that ends run().
Summarize ==
    /\ pc = "summarize"
    /\ console' = console \cup {Log("INFO", "finished", "")}
    /\ outcome' = "finished"
    /\ pc' = "teardown"
    /\ UNCHANGED <<PLUGINS, versionFile, written, run, data, updated, downloaded,
                   total, idx, job, jpos, exitStatus, writes, reads, attempted, seen,
                   prevSeen, prevOutcome, loaded>>

\* A KeyboardInterrupt raised while run() executes.
Interrupt ==
    /\ pc \in {"run", "loop", "resolve", "download", "summarize"}
    /\ outcome' = "interrupted"
    /\ pc' = "teardown"
    /\ UNCHANGED <<PLUGINS, versionFile, written, run, data, updated, downloaded,
                   total, idx, job, jpos, console, exitStatus, writes, reads, attempted,
                   seen, prevSeen, prevOutcome, loaded>>

\* An entry point that exits with 0 on KeyboardInterrupt too.
ExitCodeZero(how) == 0

\* The status the entry point leaves: sys.exit(1) on KeyboardInterrupt, and
\* the end of the script otherwise.
ExitCode(how) == IF how = "interrupted" THEN 1 ELSE 0

\* A teardown that adds the records to the file instead of replacing it.
FlushAppend(file, d) == JsonFile(file.text \o JsonDump(d))

\* A teardown that leaves the file as it is.
FlushNothing(file, d) == file

\* The file after VersionFileHandler.__del__.
Flush(file, d) == Write(d)

\* The entry point after main(): KeyboardInterrupt exits with 1, any other
\* exception is logged, and the handler is destroyed, which writes the file.
Teardown ==
    /\ pc = "teardown"
    /\ console' = IF outcome = "exception"
                  THEN console \cup {Log("ERROR", "exception", "")}
                  ELSE console
    /\ versionFile' = Flush(versionFile, data)
    /\ writes' = writes + 1
    /\ exitStatus' = ExitCode(outcome)
    /\ pc' = "exited"
    /\ UNCHANGED <<PLUGINS, written, run, data, updated, downloaded, total, idx,
                   job, jpos, outcome, reads, attempted, seen, prevSeen,
                   prevOutcome, loaded>>

\* The script is started again.
StartRun ==
    /\ pc = "exited"
    /\ run < MaxRuns
    /\ run' = run + 1
    /\ prevSeen' = [i \in DOMAIN seen |-> VersionOf(seen[i])]
    /\ prevOutcome' = outcome
    /\ ProcessStart
    /\ UNCHANGED <<PLUGINS, versionFile>>

Next ==
    \/ Construct
    \/ RunStart
    \/ Iterate
    \/ Dispatch
    \/ Download
    \/ Summarize
    \/ Interrupt
    \/ Teardown
    \/ StartRun

Spec == Init /\ [][Next]_vars

\* ------------------------------------------- the ledger handler on its own

\* A VersionFileHandler made where no file was: _data is {} and the file
\* holds {}; no catalog is run.
LedgerInit ==
    /\ PLUGINS = <<>>
    /\ versionFile = Write(<<>>)
    /\ written = {}
    /\ run = 1
    /\ pc = "open"
    /\ data = <<>>
    /\ updated = 0
    /\ downloaded = 0
    /\ total = 0
    /\ idx = 0
    /\ job = NoneJob
    /\ jpos = 0
    /\ console = {}
    /\ outcome = "running"
    /\ exitStatus = 0
    /\ writes = 1
    /\ reads = 0
    /\ attempted = {}
    /\ seen = <<>>
    /\ prevSeen = <<>>
    /\ prevOutcome = "none"
    /\ loaded = <<>>

\* VersionFileHandler.set(key, value) on the live handler.
LedgerSet ==
    /\ pc = "open"
    /\ \E key \in LedgerFiles, value \in LedgerIds :
         /\ HasKey(data, key) \/ Len(data) < MaxRecords
         /\ data' = Set(data, key, value)
    /\ UNCHANGED <<PLUGINS, versionFile, written, run, pc, updated, downloaded,
                   total, idx, job, jpos, console, outcome, exitStatus, writes,
                   reads, attempted, seen, prevSeen, prevOutcome, loaded>>

\* VersionFileHandler.__del__: write() dumps _data to the file; `data` stays
\* as the map that was flushed.
LedgerDel ==
    /\ pc = "open"
    /\ versionFile' = Flush(versionFile, data)
    /\ writes' = writes + 1
    /\ pc' = "flushed"
    /\ UNCHANGED <<PLUGINS, written, run, data, updated, downloaded, total, idx,
                   job, jpos, console, outcome, exitStatus, reads, attempted,
                   seen, prevSeen, prevOutcome, loaded>>

\* _handle_file of the next handler: the file exists, read() loads it.
LedgerRead ==
    /\ pc = "flushed"
    /\ versionFile.exists
    /\ Parses(versionFile)
    /\ data' = JsonLoad(versionFile.text)
    /\ loaded' = data'
    /\ reads' = 1
    /\ writes' = 0
    /\ pc' = "open"
    /\ UNCHANGED <<PLUGINS, versionFile, written, run, updated, downloaded, total,
                   idx, job, jpos, console, outcome, exitStatus, attempted, seen,
                   prevSeen, prevOutcome>>

LedgerNext ==
    \/ LedgerSet
    \/ LedgerDel
    \/ LedgerRead

LedgerSpec == LedgerInit /\ [][LedgerNext]_vars

\* ------------------------------------------------------------------ claims

\* The entry the for loop of run() is at, when there is one.
AtEntry == idx \in DOMAIN PLUGINS

\* A version-tracked entry: an entry with a metadata query, Spigot with a
\* file name, or Jenkins or GitHub with an index mapping.
Tracked(entry) ==
    \/ Variant(entry.url) = "spigot" /\ entry.files.type = "str"
    \/ Variant(entry.url) \in {"jenkins", "github"} /\ entry.files.type = "dict"

\* The file names of an entry.
FilesOf(entry) ==
    IF entry.files.type = "dict"
    THEN {entry.files.items[i][2] : i \in DOMAIN entry.files.items}
    ELSE {entry.files.name}

\* The file whose ledger record the handler compares: the destination file,
\* or the first file of the fileSpec in its own order.
Representative(entry) ==
    IF entry.files.type = "dict" THEN FirstFile(entry.files) ELSE entry.files.name

\* The step in which the handler of the current entry gets its metadata
\* response and returns or raises.
Resolving == pc = "resolve" /\ seen[idx] = NotAsked /\ seen'[idx] /= NotAsked

C2_OneJobEntryPerIndex ==
    [][ ( /\ Resolving
          /\ Tracked(PLUGINS[idx])
          /\ seen'[idx].status = "ok"
          /\ seen'[idx].ver /= Get(data, Representative(PLUGINS[idx])) )
          => ( /\ ~job'.none
               /\ Len(job'.pairs) = FileCount(PLUGINS[idx].files)
               /\ \A f \in FilesOf(PLUGINS[idx]) :
                    /\ Cardinality({i \in DOMAIN job'.pairs : job'.pairs[i][2] = f}) = 1
                    /\ Get(data', f) = seen'[idx].ver
               /\ updated' = updated + FileCount(PLUGINS[idx].files) )
      ]_vars

\* The entries asked so far in this run got the status and version id they
\* got in the run before.
SameRemote ==
    \A i \in DOMAIN seen : seen[i] = NotAsked \/ VersionOf(seen[i]) = prevSeen[i]

\* C3: in a run that follows a run that ended normally (run() returned) and
\* that sees the same remote version ids, no version-tracked entry is
\* downloaded or counted as updated, the ledger map stays the one loaded, and
\* the file flushed at the end holds the map that was loaded.
C3_SecondRunIsIdle ==
    (run > 1 /\ prevOutcome \in {"finished", "halted"} /\ SameRemote)
        => /\ updated = 0
           /\ DictEq(data, loaded)
           /\ (AtEntry /\ Tracked(PLUGINS[idx]) /\ pc \in {"resolve", "download"})
                 => attempted = {}
           /\ (pc = "exited") =>
                 /\ versionFile.valid
                 /\ DictEq(JsonLoad(versionFile.text), loaded)

\* C3 witness: a second run has ended after asking a tracked entry that got
\* a version id in both runs, with a ledger that holds records.
C3_Witness ==
    /\ run = 2
    /\ pc = "exited"
    /\ outcome = "finished"
    /\ prevOutcome = "finished"
    /\ SameRemote
    /\ \E i \in DOMAIN seen : seen[i].status = "ok"
    /\ Len(loaded) >= 2
    /\ Len(JsonLoad(versionFile.text)) >= 2

\* A step of the current run (not the start of the next one).
SameRun == run' = run

\* C4 (as claimed): in every run the ledger file is written exactly once, at
\* teardown, with the in-memory map; no other step of the run writes it.
C4_WrittenOnceAtTeardown ==
    [][ SameRun =>
          /\ (versionFile' /= versionFile \/ writes' /= writes)
                => (pc = "teardown" /\ versionFile' = Write(data))
          /\ (pc' = "exited") => writes' = 1
      ]_vars

\* C4 (amended): every run that ends passes teardown once, and teardown
\* overwrites the ledger file with the in-memory map; the only other write
\* of a run is the empty ledger that load() creates when the file is absent;
\* a step that changes the in-memory map (set) leaves the file as it is.
C4_FlushedOnceAtTeardown ==
    [][ SameRun =>
          /\ (versionFile' /= versionFile \/ writes' /= writes)
                => \/ pc = "teardown"
                   \/ /\ pc = "start"
                      /\ ~versionFile.exists
                      /\ versionFile' = Write(<<>>)
                      /\ writes' = 1
          /\ (pc = "teardown" /\ pc' /= pc)
                => /\ pc' = "exited"
                   /\ versionFile' = Write(data)
                   /\ writes' = writes + 1
                   /\ writes <= 1
          /\ (pc' = "exited") => pc \in {"teardown", "exited"}
          /\ (pc /= "start" /\ data' /= data) => versionFile' = versionFile
      ]_vars

\* C4 witness: a run that set ledger records has ended, and its one write
\* left the in-memory map in the file.
C4_Witness ==
    /\ pc = "exited"
    /\ outcome = "finished"
    /\ writes = 1
    /\ updated > 0
    /\ ~DictEq(data, loaded)
    /\ versionFile = Write(data)

\* C5: once a run is interrupted no entry is dispatched or counted, nothing
\* is downloaded, the ledger map is not changed and the summary is not
\* logged; the process exits with a non-zero status and the ledger file then
\* holds the in-memory map as it was at the interrupt.
C5_InterruptKeepsProgress ==
    [][ /\ (outcome /= "interrupted" /\ outcome' = "interrupted")
            => /\ pc' = "teardown"
               /\ Log("INFO", "finished", "") \notin console'
               /\ UNCHANGED <<idx, total, seen, attempted, data, updated,
                              downloaded, written, versionFile>>
        /\ (outcome = "interrupted" /\ SameRun)
            => /\ Log("INFO", "finished", "") \notin console'
               /\ UNCHANGED <<idx, total, seen, attempted, data, updated,
                              downloaded, written>>
               /\ (pc' = "exited")
                    => /\ exitStatus' /= 0
                       /\ versionFile'.valid
                       /\ JsonLoad(versionFile'.text) = data
      ]_vars

\* C5 witness: a run interrupted after a record was set and before the last
\* entry has exited, and the record is in the file.
C5_Witness ==
    /\ pc = "exited"
    /\ outcome = "interrupted"
    /\ AtEntry
    /\ idx < Len(PLUGINS)
    /\ updated > 0
    /\ \E f \in Keys(data) : ~HasKey(loaded, f) /\ HasKey(JsonLoad(versionFile.text), f)

\* A run that got as far as the catalog check and was not interrupted.
EmptyCatalogRun ==
    /\ Len(PLUGINS) = 0
    /\ pc \in {"teardown", "exited"}
    /\ outcome \notin {"interrupted", "exception"}

\* C6 (as claimed): with an empty catalog the run logs a fatal message,
\* dispatches nothing, downloads nothing, and neither reads nor writes the
\* ledger file.
C6_EmptyCatalogLeavesFileUntouched ==
    EmptyCatalogRun
        => /\ Log("CRITICAL", "not specified", "") \in console
           /\ total = 0
           /\ downloaded = 0
           /\ written = {}
           /\ reads = 0
           /\ writes = 0

\* C6 (amended): with an empty catalog the run logs a fatal message,
\* dispatches nothing and downloads nothing; the constructor has read the
\* ledger file (or created it empty) before the catalog is checked, the map
\* stays the one loaded, and teardown rewrites the file with that map.
C6_EmptyCatalogKeepsLedger ==
    EmptyCatalogRun
        => /\ Log("CRITICAL", "not specified", "") \in console
           /\ Log("INFO", "finished", "") \notin console
           /\ outcome = "halted"
           /\ total = 0
           /\ updated = 0
           /\ downloaded = 0
           /\ written = {}
           /\ attempted = {}
           /\ data = loaded
           /\ reads + writes >= 1
           /\ (pc = "exited") => (versionFile = Write(loaded) /\ writes >= 1)

\* C6 witness: a run over the empty catalog has exited after loading a
\* ledger that holds records.
C6_Witness ==
    /\ Len(PLUGINS) = 0
    /\ pc = "exited"
    /\ outcome = "halted"
    /\ reads = 1
    /\ Len(loaded) > 0

\* The files of the first n entries of a catalog.
RECURSIVE SumFiles(_, _)
SumFiles(cat, n) ==
    IF n = 0 THEN 0 ELSE SumFiles(cat, n - 1) + FileCount(cat[n].files)

\* An entry whose source location is not a string, or whose fileSpec is
\* neither a file name nor a mapping.
IllFormed(entry) ==
    ~(entry.url.type = "str" /\ (entry.files.type = "str" \/ entry.files.type = "dict"))

\* C7: a malformed entry and the entries after it are never dispatched and
\* never counted; the run halts at the malformed entry, with every entry
\* before it dispatched and counted.
C7_MalformedEntryHalts ==
    \A i \in DOMAIN PLUGINS :
        IllFormed(PLUGINS[i])
            => /\ idx <= i
               /\ \A j \in i..Len(PLUGINS) : seen[j] = NotAsked
               /\ total <= SumFiles(PLUGINS, i - 1)
               /\ (idx = i /\ pc /= "loop")
                    => /\ pc \in {"teardown", "exited"}
                       /\ outcome \in {"halted", "interrupted"}
                       /\ Log("INFO", "finished", "") \notin console
               /\ (outcome = "halted")
                    => /\ idx = i
                       /\ total = SumFiles(PLUGINS, i - 1)
                       /\ \A k \in 1..(i - 1) : seen[k] /= NotAsked

\* C7 witness: a run has halted at a malformed second entry after the first
\* entry was resolved and downloaded.
C7_Witness ==
    /\ pc = "exited"
    /\ outcome = "halted"
    /\ idx = 2
    /\ IllFormed(PLUGINS[2])
    /\ seen[1].status = "ok"
    /\ downloaded = 1
    /\ total = 1

\* C8 (as claimed): a run that ends with a configuration error (empty
\* catalog, malformed entry), an interrupt or an uncaught exception exits
\* with a non-zero status; the exception is logged; and the status of an
\* interrupt is not the status of a configuration error.
C8_AbnormalExitIsNonZero ==
    /\ (pc = "exited" /\ outcome \in {"halted", "interrupted", "exception"})
          => exitStatus /= 0
    /\ (pc = "exited" /\ outcome = "exception")
          => Log("ERROR", "exception", "") \in console
    /\ ExitCode("interrupted") /= ExitCode("halted")

\* C9 (as claimed): a metadata query that ends with a non-success status or
\* an unreadable response logs an error and skips the entry: nothing of the
\* ledger, the counters or the directory changes, the job is empty, and the
\* run goes on to the next entry.
C9_FailedQuerySkipsEntry ==
    [][ /\ (Resolving /\ seen'[idx].status \in {"fail", "bad"})
            => /\ \E r \in console' \ console : r.level = "ERROR"
               /\ job'.none
               /\ pc' = "download"
               /\ outcome' = "running"
               /\ UNCHANGED <<data, updated, downloaded, written, idx>>
        /\ (pc = "download" /\ job.none /\ outcome' = "running")
            => /\ pc' = "loop"
               /\ idx' = idx + 1
               /\ attempted' = {}
      ]_vars

\* The files of a job.
JobFiles(j) == {j.pairs[i][2] : i \in DOMAIN j.pairs}

\* C10: in download() a pair whose GET fails writes no file, counts nothing
\* and logs an error that names the file; a pair whose GET succeeds writes
\* its file and counts one download; neither ends the loop, which leaves
\* download() only after every pair was fetched, for the next entry; None
\* and the empty job fetch nothing and change nothing.
C10_DownloadPerPair ==
    [][ (pc = "download" /\ outcome' = "running") =>
          /\ (job.none \/ Len(job.pairs) = 0)
                => /\ pc' = "loop"
                   /\ idx' = idx + 1
                   /\ UNCHANGED <<attempted, written, downloaded, console, data,
                                  updated>>
          /\ (pc' = "download")
                => /\ jpos \in DOMAIN job.pairs
                   /\ jpos' = jpos + 1
                   /\ \E a \in attempted' :
                        /\ a.file = job.pairs[jpos][2]
                        /\ attempted' = attempted \cup {a}
                        /\ a.ok => /\ a.file \in written'
                                   /\ written' \ {a.file} = written \ {a.file}
                                   /\ downloaded' = downloaded + 1
                                   /\ console' = console
                        /\ ~a.ok => /\ written' = written
                                    /\ downloaded' = downloaded
                                    /\ console' = console
                                         \cup {Log("ERROR", "download", a.file)}
                   /\ UNCHANGED <<idx, data, updated, job>>
          /\ (pc' /= "download")
                => /\ pc' = "loop"
                   /\ idx' = idx + 1
                   /\ {a.file : a \in attempted} = JobFiles(job)
                   /\ UNCHANGED <<written, downloaded, console>>
      ]_vars

\* C10 witness: download() has gone through a job of two pairs whose first
\* GET failed and whose second succeeded.
C10_Witness ==
    /\ pc = "download"
    /\ ~job.none
    /\ Len(job.pairs) = 2
    /\ jpos = 3
    /\ [file |-> job.pairs[1][2], ok |-> FALSE] \in attempted
    /\ [file |-> job.pairs[2][2], ok |-> TRUE] \in attempted
    /\ job.pairs[1][2] \notin written
    /\ job.pairs[2][2] \in written
    /\ downloaded = 1
    /\ Log("ERROR", "download", job.pairs[1][2]) \in console

\* C11: a ledger file that exists and is not valid JSON makes load() raise,
\* and the run ends there: no entry is dispatched or counted, no metadata
\* query and no download is issued, no file is written to the directory.
C11_CorruptLedgerAborts ==
    [][ /\ (pc = "start" /\ versionFile.exists /\ ~versionFile.valid)
            => /\ pc' = "teardown"
               /\ outcome' = "exception"
               /\ idx' = 0
        /\ (outcome' = "exception" /\ idx' = 0)
            => /\ pc' \in {"teardown", "exited"}
               /\ \A i \in DOMAIN seen' : seen'[i] = NotAsked
               /\ total' = 0
               /\ updated' = 0
               /\ downloaded' = 0
               /\ attempted' = {}
               /\ written' = {}
               /\ job'.none
      ]_vars

\* C11 witness: a run over a catalog with entries has exited on the
\* exception of load(), before the loop of run().
C11_Witness ==
    /\ pc = "exited"
    /\ outcome = "exception"
    /\ idx = 0
    /\ reads = 1
    /\ Len(PLUGINS) > 0
    /\ Log("ERROR", "exception", "") \in console

\* An entry that run() sends to its else branch: the lowercased host holds
\* none of 'spigotmc.org', 'ci.' and 'github.com'.
DirectEntry(entry) ==
    /\ entry.url.type = "str"
    /\ ~Contains(Lower(entry.url.host), SpigotToken)
    /\ ~Contains(Lower(entry.url.host), JenkinsToken)
    /\ ~Contains(Lower(entry.url.host), GithubToken)

FirstLabel(host) ==
    IF \E k \in DOMAIN host : host[k] = "."
    THEN SubSeq(host, 1, (CHOOSE k \in DOMAIN host :
                            host[k] = "." /\ \A j \in 1..(k - 1) : host[j] /= ".") - 1)
    ELSE host

\* The variant the dispatch rule of the claim gives a source location.
ClaimedVariant(url) ==
    LET host == Lower(url.host)
    IN  IF Contains(host, SpigotToken) THEN "spigot"
        ELSE IF FirstLabel(host) = <<"c", "i">> THEN "jenkins"
        ELSE IF Contains(host, GithubToken) THEN "github"
        ELSE "direct"

\* The kind of direct URL each variant puts in its job.
JobKind(variant) ==
    CASE variant = "spigot" -> "spiget"
      [] variant = "jenkins" -> "artifact"
      [] variant = "github" -> "asset"
      [] OTHER -> "direct"

\* C13 (as claimed): the handler an entry is sent to is the one the rule
\* gives for its lowercased host, with Jenkins chosen if and only if the
\* first label of the host is "ci": a dispatched entry has no metadata query
\* exactly when the rule says Direct, and the job handed to download() holds
\* the URLs of the rule's variant.
C13_DispatchByFirstLabel ==
    (AtEntry /\ seen[idx] /= NotAsked)
        => /\ (seen[idx] = NoQuery) <=> (ClaimedVariant(PLUGINS[idx].url) = "direct")
           /\ (pc = "download" /\ ~job.none)
                => \A i \in DOMAIN job.pairs :
                     job.pairs[i][1].kind = JobKind(ClaimedVariant(PLUGINS[idx].url))

\* The file count of an entry as the claim words it: the number of indexes
\* of an index mapping, 1 for a single file name.
MappingSize(entry) ==
    IF entry.files.type = "dict"
    THEN Cardinality({entry.files.items[i][1] : i \in DOMAIN entry.files.items})
    ELSE 1

\* The file count of the first n entries of the catalog.
RECURSIVE CountedFiles(_)
CountedFiles(n) ==
    IF n = 0 THEN 0 ELSE CountedFiles(n - 1) + MappingSize(PLUGINS[n])

\* The number of entries whose handler has been called in this run.
Handled == Cardinality({i \in DOMAIN seen : seen[i] /= NotAsked})

\* C14: at every point of a run `total` is the file count of the entries the
\* loop has taken so far: it already counts entry idx when the handler of
\* entry idx is about to be called, it does not depend on what the handler
\* or the downloads did, and a run that reaches the summary has counted the
\* whole catalog.
C14_TotalCountsDispatched ==
    /\ pc \in {"start", "run"} => total = 0
    /\ pc = "loop" => total = CountedFiles(idx - 1)
    /\ pc \in {"resolve", "download"} => total = CountedFiles(idx)
    /\ pc = "summarize" => total = CountedFiles(Len(PLUGINS))
    /\ pc \in {"teardown", "exited"} =>
         CASE outcome = "finished" -> total = CountedFiles(Len(PLUGINS))
           [] outcome = "halted" ->
                total = IF idx = 0 THEN 0 ELSE CountedFiles(idx - 1)
           [] outcome = "exception" -> total = CountedFiles(idx)
           [] outcome = "interrupted" ->
                /\ total >= CountedFiles(Handled)
                /\ \E k \in {idx - 1, idx} \cap (0..Len(PLUGINS)) :
                     total = CountedFiles(k)
           [] OTHER -> FALSE

\* C14 witness: a run reached the summary with three files counted for two
\* entries, one of them a two-file mapping, although the query of one entry
\* failed and a download of the other failed.
C14_Witness ==
    /\ pc = "summarize"
    /\ Len(PLUGINS) = 2
    /\ total = 3
    /\ \E i \in DOMAIN seen : seen[i].status = "fail"
    /\ downloaded < updated

\* C15: round trip of the ledger: the map that read() loads from the file
\* that a flush wrote has the keys and the values of the map that was
\* flushed.
C15_LoadAfterFlush ==
    [][ (pc = "flushed" /\ pc' = "open")
          => /\ Keys(data') = Keys(data)
             /\ \A key \in Keys(data) : Get(data', key) = Get(data, key)
             /\ Len(data') = Len(data) ]_vars

\* C15 witness: a ledger of two records, one of them a seven-digit id, has
\* been flushed and loaded again.
C15_Witness ==
    /\ pc = "open"
    /\ reads = 1
    /\ Len(loaded) = 2
    /\ loaded = data
    /\ \E i \in DOMAIN data : data[i][2] = 1050273
    /\ versionFile = Write(data)

\* The file at the lowest index of an index mapping.
LowestIndexFile(entry) ==
    LET items == entry.files.items
        i == CHOOSE i \in DOMAIN items :
                \A j \in DOMAIN items : items[i][1] <= items[j][1]
    IN  items[i][2]

\* A Jenkins or GitHub entry with an index mapping.
MultiFile(entry) ==
    /\ entry.url.type = "str"
    /\ entry.files.type = "dict"
    /\ Len(entry.files.items) > 0
    /\ Variant(entry.url) \in {"jenkins", "github"}

\* C16 (as claimed): for a Jenkins or GitHub entry whose query gave a version
\* id, the only thing that decides is the ledger record of the file at the
\* lowest index: if it equals the id, nothing is downloaded and nothing is
\* recorded; if it differs, every file of the entry is handed to download()
\* and recorded with the id.
C16_LowestIndexDecides ==
    [][ ( /\ Resolving
          /\ MultiFile(PLUGINS[idx])
          /\ seen'[idx].status = "ok" )
          => IF Get(data, LowestIndexFile(PLUGINS[idx])) = seen'[idx].ver
             THEN /\ job'.none
                  /\ data' = data
                  /\ updated' = updated
             ELSE /\ pc' = "download"
                  /\ ~job'.none
                  /\ \A f \in FilesOf(PLUGINS[idx]) :
                       /\ \E i \in DOMAIN job'.pairs : job'.pairs[i][2] = f
                       /\ Get(data', f) = seen'[idx].ver ]_vars

\* A catalog with at least one entry and no malformed entry.
WellFormedCatalog ==
    /\ Len(PLUGINS) > 0
    /\ \A i \in DOMAIN PLUGINS : ~IllFormed(PLUGINS[i])

\* C17 (as claimed): in a run over a non-empty well-formed catalog that is
\* not interrupted, the entries are dispatched one by one in catalog order,
\* the downloads of an entry come between its handler call and the next
\* entry, and the run ends only after the summary, with every entry
\* dispatched.
C17_RunReachesSummary ==
    (WellFormedCatalog /\ idx >= 1 /\ outcome /= "interrupted")
        => /\ pc \in {"loop", "resolve"}
                => \A i \in DOMAIN PLUGINS : (seen[i] /= NotAsked) <=> (i < idx)
           /\ pc = "download"
                => \A i \in DOMAIN PLUGINS : (seen[i] /= NotAsked) <=> (i <= idx)
           /\ pc \in {"summarize", "teardown", "exited"}
                => /\ idx = Len(PLUGINS) + 1
                   /\ \A i \in DOMAIN PLUGINS : seen[i] /= NotAsked
           /\ pc \in {"teardown", "exited"} => outcome = "finished"

\* C18 (as claimed): a ledger record is advanced only for a file that was
\* downloaded: when a run has finished, every file whose record differs from
\* the record that was loaded has been written by this run, so that a failed
\* download leaves the old record and the next run tries the file again.
C18_RecordOnlyAfterDownload ==
    (pc = "exited" /\ outcome = "finished")
        => /\ \A f \in Keys(data) : Get(data, f) /= Get(loaded, f) => f \in written
           /\ \A f \in Keys(JsonLoad(versionFile.text)) :
                Get(JsonLoad(versionFile.text), f) /= Get(loaded, f) => f \in written

\* C19 (as claimed): every file whose ledger record changes during the
\* handler call of an entry is the destination of a pair of the job that
\* download() is then called with.
C19_RecordedFilesAreInJob ==
    [][ Resolving
          => \A f \in Keys(data') :
               Get(data', f) /= Get(data, f)
                 => /\ pc' = "download"
                    /\ ~job'.none
                    /\ \E i \in DOMAIN job'.pairs : job'.pairs[i][2] = f ]_vars

\* C20 (as claimed): when the constructor failed on a ledger file that is not
\* JSON, the file is on disk as it was once the process has exited.
C20_CorruptLedgerKept ==
    (pc = "exited" /\ outcome = "exception" /\ idx = 0)
        => versionFile = CorruptFile

====
